---- MODULE Spec2Model ----
(***************************************************************************)
(* gen-mocks: a model of the two program variants of the repository.       *)
(*   variant "import" : src/gen_mocks.go      (package by import path,     *)
(*                      interfaces selected by the suffix "Service")       *)
(*   variant "dir"    : src/unnamed/part_000  (every package of a          *)
(*                      directory, interfaces selected by a regexp)        *)
(* Identifiers, file names and paths are sequences of string segments, so  *)
(* that concatenation, suffix tests and regexp matches are computed.       *)
(***************************************************************************)
EXTENDS Integers, Sequences, FiniteSets, TLC

\* ---------------------------------------------------------------- bounds
MaxMethods == 2    \* entries in the method list of a drawn interface
MaxGroups == 2     \* parameter groups of a drawn method
MaxDecls == 2      \* declarations of a drawn source file

\* --------------------------------------------------------------- helpers
Digits == <<"0", "1", "2", "3", "4", "5", "6", "7", "8", "9">>

RECURSIVE Itoa(_)
\* fmt.Sprintf("%d", n) for n >= 0, as a sequence of digit segments
Itoa(n) ==
  IF n < 10 THEN <<Digits[n + 1]>>
  ELSE Itoa(n \div 10) \o <<Digits[(n % 10) + 1]>>

RECURSIVE Flatten(_)
\* the concatenation of a sequence of sequences (repeated append)
Flatten(ss) ==
  IF ss = <<>> THEN <<>> ELSE Head(ss) \o Flatten(Tail(ss))

\* all orders in which the elements of the finite set S can be iterated
Orders(S) ==
  {o \in [1..Cardinality(S) -> S] : \A i, j \in 1..Cardinality(S) : i # j => o[i] # o[j]}

\* ----------------------------------------------------------- syntax tree
\* ast.Field of a parameter list: a group of names sharing one type
Param(names, type) == [Names |-> names, Type |-> type]

\* ast.FuncType
FuncType(params) == [kind |-> "FuncType", Params |-> params, Results |-> <<"error">>]

\* ast.Field of an interface's method list: a method ...
Method(name, params) == [Names |-> <<name>>, Type |-> FuncType(params)]

\* ... or an embedded interface: no name, and a type that is no FuncType
Embedded(name) ==
  [Names |-> <<>>, Type |-> [kind |-> "Ident", Params |-> <<>>, Results |-> <<name>>]]

\* ast.TypeSpec; Pos is the file name fset.Position(spec.Pos()).Filename gives
TypeSpec(name, kind, methods, pos) ==
  [Name |-> name, Type |-> [kind |-> kind, Methods |-> methods], Pos |-> pos]

\* ast.GenDecl; List holds the declarations nested below it (in a function
\* literal of an initializer), which ast.Walk reaches only through it
GenDecl(tok, specs, nested) ==
  [kind |-> "GenDecl", Tok |-> tok, Specs |-> specs, List |-> nested]

\* ast.FuncDecl; List holds the declaration statements of its body
FuncDecl(body) ==
  [kind |-> "FuncDecl", Tok |-> "func", Specs |-> <<>>, List |-> body]

\* ast.File of package pkg
SrcFile(filename, pkg, decls) == [Filename |-> filename, Name |-> pkg, Decls |-> decls]

\* ------------------------------------------------------ interface selector
\* strings.HasSuffix(name, "Service")
HasSuffixService(name) == Len(name) >= 1 /\ name[Len(name)] = "Service"

\* regexp ".+Service" (the default of -i), MatchString: unanchored, at least
\* one character before an occurrence of "Service"
MatchStringDefault(name) == \E i \in 2..Len(name) : name[i] = "Service"

\* the name test of the variant's visitor
NameMatches(v, name) ==
  IF v = "import" THEN HasSuffixService(name) ELSE MatchStringDefault(name)

\* the GenDecl case of the visitor: the interface specs with a matching name
VisitGenDecl(v, node) ==
  IF node.Tok = "type"
  THEN SelectSeq(node.Specs,
         LAMBDA tspec : tspec.Type.kind = "InterfaceType" /\ NameMatches(v, tspec.Name))
  ELSE <<>>

RECURSIVE WalkList(_, _)
\* ast.Walk over a list of nodes with visitFn: a GenDecl is visited and not
\* descended into (return false), any other node is descended into
WalkList(v, nodes) ==
  IF nodes = <<>> THEN <<>>
  ELSE LET node == Head(nodes)
           here == IF node.kind = "GenDecl" THEN VisitGenDecl(v, node)
                   ELSE WalkList(v, node.List)
       IN  here \o WalkList(v, Tail(nodes))

\* ast.Walk of one *ast.File
WalkFile(v, f) == WalkList(v, f.Decls)

\* readIfaces / readServiceInterfaces: ast.Walk of the *ast.Package ranges
\* over the map pkg.Files; order is the order that iteration takes
readIfaces(v, order) == Flatten([i \in 1..Len(order) |-> WalkFile(v, order[i])])

\* ------------------------------------------------------- mock synthesizer
\* fmt.Sprintf("v%d", i)
SynthName(i) == <<"v">> \o Itoa(i)

\* synthesizeFieldNamesIfMissing: group i (zero-based) without names gets v<i>
synthesizeFieldNamesIfMissing(fl) ==
  [i \in 1..Len(fl) |->
     IF Len(fl[i].Names) = 0 THEN [fl[i] EXCEPT !.Names = <<SynthName(i - 1)>>]
     ELSE fl[i]]

\* fieldListToIdentList: every name of every group, in order
fieldListToIdentList(fl) == Flatten([i \in 1..Len(fl) |-> fl[i].Names])

IsFuncField(methField) == methField.Type.kind = "FuncType"

\* the method list as the printer sees it: the dir variant names the unnamed
\* parameters of each FuncType in place, and the FuncType node is shared by
\* the interface, the struct field and the method declaration
NamedMethods(v, methods) ==
  [i \in 1..Len(methods) |->
     IF v = "dir" /\ IsFuncField(methods[i])
     THEN [methods[i] EXCEPT !.Type.Params = synthesizeFieldNamesIfMissing(@)]
     ELSE methods[i]]

\* the first loop with the fields prepended instead of appended
MethFields_Reversed(methods) ==
  LET fs == SelectSeq(methods, IsFuncField)
  IN  [i \in 1..Len(fs) |->
         [Names |-> <<fs[Len(fs) + 1 - i].Names[1] \o <<"_">>>>, Type |-> fs[Len(fs) + 1 - i].Type]]

\* the first loop without the type test: a field for every entry
MethFields_KeepsEmbedded(methods) ==
  [i \in 1..Len(methods) |->
     [Names |-> <<(IF IsFuncField(methods[i]) THEN methods[i].Names[1]
                   ELSE methods[i].Type.Results) \o <<"_">>>>,
      Type  |-> methods[i].Type]]

\* the first loop: one struct field <Method>_ per FuncType entry
MethFields(methods) ==
  LET fs == SelectSeq(methods, IsFuncField)
  IN  [i \in 1..Len(fs) |-> [Names |-> <<fs[i].Names[1] \o <<"_">>>>, Type |-> fs[i].Type]]

MockTypeName(iface) == <<"Mock">> \o iface.Name

\* the GenDecl of the mock struct type
ImplType(iface, methods) ==
  GenDecl("type", <<TypeSpec(MockTypeName(iface), "StructType", MethFields(methods), <<>>)>>, <<>>)

\* one delegating method: return s.<Method>_(<every parameter name>)
MockMethod(iface, methField) ==
  [kind |-> "FuncDecl",
   Recv |-> <<Param(<< <<"s">> >>, <<"*">> \o MockTypeName(iface))>>,
   Name |-> methField.Names[1],
   Type |-> methField.Type,
   Body |-> <<[stmt |-> "return",
               Fun  |-> <<"s", ".">> \o methField.Names[1] \o <<"_">>,
               Args |-> fieldListToIdentList(methField.Type.Params)]>>]

\* the second loop: one delegating method per FuncType entry
StructMethods(iface, methods) ==
  LET fs == SelectSeq(methods, IsFuncField)
  IN  [i \in 1..Len(fs) |-> MockMethod(iface, fs[i])]

\* the *ast.File built for one interface (astutil.AddImport in the import
\* variant only), as printer.Fprint and imports.Process render it
MockFile(v, outPkg, iface) ==
  LET methods == NamedMethods(v, iface.Type.Methods)
  IN  [Name    |-> outPkg,
       Imports |-> IF v = "import" THEN <<"importPath">> ELSE <<>>,
       Decls   |-> <<ImplType(iface, methods)>> \o StructMethods(iface, methods)]

\* the interface after the iteration: its FuncTypes were named in place
MutatedIface(v, iface) ==
  [iface EXCEPT !.Type.Methods = NamedMethods(v, @)]

\* --------------------------------------------------------------- output
\* strings.TrimSuffix(base, ".go")
TrimSuffixGo(base) ==
  IF Len(base) >= 1 /\ base[Len(base)] = ".go" THEN SubSeq(base, 1, Len(base) - 1) ELSE base

\* filepath.Join(outDir, TrimSuffix(Base(filename), ".go") + "_mock.go")
OutPath(iface) == <<"outDir", "/">> \o TrimSuffixGo(iface.Pos) \o <<"_mock.go">>

\* ------------------------------------------------------------ the inputs
\* the source files a run may find, in file-name order
SrcFileNames == << <<"a", ".go">>, <<"b", ".go">> >>

PkgNames == {"svc", "other"}

\* the default of the flag -n
pkgName == "svc"

SeqsUpTo(S, n) == UNION {[1..k -> S] : k \in 0..n}

\* parameter lists: all groups named (distinctly) or all groups unnamed
NamedGroups == {Param(<< <<"a">> >>, "int"), Param(<< <<"b">>, <<"c">> >>, "string")}

FieldLists ==
  {fl \in SeqsUpTo(NamedGroups, MaxGroups) : \A i, j \in 1..Len(fl) : i # j => fl[i] # fl[j]}
  \cup SeqsUpTo({Param(<<>>, "bool")}, MaxGroups)

MethodNames == <<"Get", "Check", "Put", "List", "Del">>

MethodName(i) == IF i <= Len(MethodNames) THEN <<MethodNames[i]>> ELSE <<"M">> \o Itoa(i)

\* method lists: entry i is the method MethodName(i) or an embedded interface
MethodLists ==
  UNION {
    {[i \in 1..k |-> IF c[i] = <<"embedded">> THEN Embedded("Base")
                     ELSE Method(MethodName(i), c[i][2])] :
       c \in [1..k -> {<<"embedded">>} \cup ({"method"} \X FieldLists)]}
    : k \in 0..MaxMethods}

StdMethods == <<Method(<<"Get">>, <<Param(<< <<"id">> >>, "string")>>)>>

Iface(name, fn) == TypeSpec(name, "InterfaceType", StdMethods, fn)

DeclKinds == {"match", "nomatch", "func"}

\* declaration i of file fn: a matching interface, a non-matching one, or a
\* function whose body declares a local interface with a matching name
DeclOf(kind, fn, i) ==
  LET id == <<fn[1]>> \o Itoa(i)
  IN  CASE kind = "match"   -> GenDecl("type", <<Iface(id \o <<"Service">>, fn)>>, <<>>)
        [] kind = "nomatch" -> GenDecl("type", <<Iface(id \o <<"Helper">>, fn)>>, <<>>)
        [] kind = "func"    ->
             FuncDecl(<<GenDecl("type", <<Iface(id \o <<"Local", "Service">>, fn)>>, <<>>)>>)

\* the files named fn with at most n drawn declarations
FilesNamed(fn, n) ==
  {SrcFile(fn, p, [i \in 1..Len(ks) |-> DeclOf(ks[i], fn, i)]) :
     p \in PkgNames, ks \in SeqsUpTo(DeclKinds, n)}

\* directories of a first file, alone or beside a second file that holds at
\* most one declaration
LayoutDirs ==
  {{f} : f \in FilesNamed(SrcFileNames[1], MaxDecls)}
  \cup {{f, g} : f \in FilesNamed(SrcFileNames[1], MaxDecls), g \in FilesNamed(SrcFileNames[2], 1)}

\* directories of one file declaring one interface with a drawn method list
MethodDirs ==
  {{SrcFile(SrcFileNames[1], pkgName,
            <<GenDecl("type", <<TypeSpec(n, "InterfaceType", ml, SrcFileNames[1])>>, <<>>)>>)} :
     n \in {<<"Foo", "Service">>, <<"Helper">>}, ml \in MethodLists}

\* directories of one file with the remaining declaration shapes
ShapeDecls ==
  LET fn == SrcFileNames[1]
      foo == Iface(<<"Foo", "Service">>, fn)
      bar == Iface(<<"Bar", "Service">>, fn)
  IN  { <<GenDecl("var", <<>>, <<GenDecl("type", <<bar>>, <<>>)>>), GenDecl("type", <<foo>>, <<>>)>>,
        <<GenDecl("type", <<TypeSpec(<<"Conf", "Service">>, "StructType", <<>>, fn), foo>>, <<>>)>>,
        <<GenDecl("type", <<foo, bar>>, <<>>)>>,
        <<GenDecl("type", <<Iface(<<"Service">>, fn)>>, <<>>)>>,
        <<GenDecl("type", <<Iface(<<"Foo", "Service", "X">>, fn)>>, <<>>)>>,
        <<FuncDecl(<<FuncDecl(<<GenDecl("type", <<bar>>, <<>>)>>)>>), GenDecl("type", <<foo>>, <<>>)>> }

ShapeDirs == {{SrcFile(SrcFileNames[1], pkgName, ds)} : ds \in ShapeDecls}

\* parser.ParseDir: the files grouped into packages by package name
ParseDir(files) ==
  {[Name |-> n, Files |-> {f \in files : f.Name = n}] : n \in {f.Name : f \in files}}

\* the output paths a run can write
OutPaths == {<<"outDir", "/">> \o TrimSuffixGo(SrcFileNames[i]) \o <<"_mock.go">> : i \in 1..Len(SrcFileNames)}

\* a file of the output directory: absent, or present with the chunks written
Absent == [exists |-> FALSE, data |-> <<>>]

Created == [exists |-> TRUE, data |-> <<>>]

\* what an earlier run left at the first output path
OldSrc == [Name |-> "old", Imports |-> <<>>, Decls |-> <<>>]

NoFile == [Name |-> "", Imports |-> <<>>, Decls |-> <<>>]

\* ------------------------------------------------------------- the state
VARIABLES
  variant,     \* which program runs: "import" (gen_mocks.go) or "dir" (part_000)
  writeFiles,  \* the flag -w
  dir,         \* the source files of the package directory
  pkgs,        \* the result of parser.ParseDir
  pending,     \* main's range over pkgs: the packages not yet taken
  pc,          \* "start", "main", "write", "exit0", "exit1"
  outPkg,      \* writeMockImplFiles' package-name argument
  ifaces,      \* writeMockImplFiles' svcIfaces argument
  idx,         \* iterations of the loop over svcIfaces begun
  file,        \* the *ast.File built by the latest iteration
  outDirMade,  \* os.MkdirAll(outDir) has succeeded
  fs,          \* the files of the output directory
  stdout,      \* the chunks written to os.Stdout
  log,         \* the lines of the logger (stderr)
  ioFailed     \* os.Create or w.Write has returned an error

vars == <<variant, writeFiles, dir, pkgs, pending, pc, outPkg, ifaces, idx, file,
          outDirMade, fs, stdout, log, ioFailed>>

config == <<variant, writeFiles, dir>>

Line(kind, arg) == [kind |-> kind, arg |-> arg]

Init ==
  /\ variant \in {"import", "dir"}
  /\ writeFiles \in BOOLEAN
  /\ dir \in LayoutDirs \cup MethodDirs \cup ShapeDirs
  /\ pkgs = {}
  /\ pending = {}
  /\ pc = "start"
  /\ outPkg = ""
  /\ ifaces = <<>>
  /\ idx = 0
  /\ file = NoFile
  /\ outDirMade = FALSE
  /\ fs = [p \in OutPaths |->
             IF p = <<"outDir", "/">> \o TrimSuffixGo(SrcFileNames[1]) \o <<"_mock.go">>
             THEN [exists |-> TRUE, data |-> <<OldSrc>>] ELSE Absent]
  /\ stdout = <<>>
  /\ log = <<>>
  /\ ioFailed = FALSE

\* log.Fatal(err): the line, then exit status 1
Fatal(lines, err) ==
  /\ log' = log \o lines \o <<Line("fatal", <<err>>)>>
  /\ pc' = "exit1"

\* ---------------------------------------------------- main, both variants
\* build.Import or parser.ParseDir fails
ParseFail ==
  /\ pc = "start"
  /\ Fatal(<<>>, "parse")
  /\ UNCHANGED <<config, pkgs, pending, outPkg, ifaces, idx, file, outDirMade, fs, stdout, ioFailed>>

\* import variant: parseSvcPkg finds no package named pkgName
ImportNoPkg ==
  /\ pc = "start" /\ variant = "import"
  /\ ~ \E p \in ParseDir(dir) : p.Name = pkgName
  /\ pkgs' = ParseDir(dir)
  /\ Fatal(<<>>, "nopkg")
  /\ UNCHANGED <<config, pending, outPkg, ifaces, idx, file, outDirMade, fs, stdout, ioFailed>>

\* import variant: main up to the loop of writeMockImplFiles; with mk false
\* os.MkdirAll fails
ImportMain(mk) ==
  /\ pc = "start" /\ variant = "import"
  /\ \E p \in ParseDir(dir) :
       /\ p.Name = pkgName
       /\ pkgs' = ParseDir(dir)
       /\ \E order \in Orders(p.Files) :
            /\ ifaces' = readIfaces(variant, order)
            /\ outPkg' = p.Name
            /\ idx' = 0
       /\ IF mk
          THEN /\ outDirMade' = TRUE
               /\ pc' = "write"
               /\ log' = log
          ELSE /\ outDirMade' = outDirMade
               /\ Fatal(<<>>, "mkdir")
  /\ UNCHANGED <<config, pending, file, fs, stdout, ioFailed>>

\* dir variant: regexp.Compile and parser.ParseDir succeed
DirParse ==
  /\ pc = "start" /\ variant = "dir"
  /\ pkgs' = ParseDir(dir)
  /\ pending' = ParseDir(dir)
  /\ pc' = "main"
  /\ UNCHANGED <<config, outPkg, ifaces, idx, file, outDirMade, fs, stdout, log, ioFailed>>

\* dir variant, the empty case without its log.Printf
DirMainEmpty_Silent(p, order) ==
  /\ readIfaces(variant, order) = <<>>
  /\ ifaces' = <<>>
  /\ idx' = 0
  /\ log' = log
  /\ pc' = "main"
  /\ UNCHANGED <<outPkg, outDirMade>>

\* dir variant: the package has no matching interface: warn and continue
DirMainEmpty(p, order) ==
  /\ readIfaces(variant, order) = <<>>
  /\ ifaces' = <<>>
  /\ idx' = 0
  /\ log' = Append(log, Line("warning", <<p.Name>>))
  /\ pc' = "main"
  /\ UNCHANGED <<outPkg, outDirMade>>

\* dir variant: the package has matching interfaces: writeMockImplFiles
DirMainWrite(p, order, mk) ==
  /\ readIfaces(variant, order) # <<>>
  /\ ifaces' = readIfaces(variant, order)
  /\ idx' = 0
  /\ outPkg' = p.Name
  /\ IF mk
     THEN /\ outDirMade' = TRUE
          /\ pc' = "write"
          /\ log' = log
     ELSE /\ outDirMade' = outDirMade
          /\ Fatal(<<>>, "mkdir")

\* dir variant: one iteration of main's range over the map pkgs
DirMain ==
  /\ pc = "main" /\ variant = "dir"
  /\ \E p \in pending :
       /\ pending' = pending \ {p}
       /\ \E order \in Orders(p.Files) :
            \/ DirMainEmpty(p, order)
            \/ \E mk \in BOOLEAN : DirMainWrite(p, order, mk)
  /\ UNCHANGED <<config, pkgs, file, fs, stdout, ioFailed>>

\* dir variant: the range is over, main returns
DirMainDone ==
  /\ pc = "main" /\ variant = "dir" /\ pending = {}
  /\ pc' = "exit0"
  /\ UNCHANGED <<config, pkgs, pending, outPkg, ifaces, idx, file, outDirMade, fs, stdout, log, ioFailed>>

\* ------------------------------------------------- writeMockImplFiles loop
\* the part of an iteration every outcome shares: the declarations are built
\* (naming parameters in place), the file name derived and logged
IterBegin ==
  /\ pc = "write" /\ idx < Len(ifaces)
  /\ idx' = idx + 1
  /\ file' = MockFile(variant, outPkg, ifaces[idx + 1])
  /\ ifaces' = [ifaces EXCEPT ![idx + 1] = MutatedIface(variant, @)]

IterPath == OutPath(ifaces[idx + 1])

IterLog == <<Line("#", IterPath)>>

\* os.Create truncates or creates the file before anything is rendered
CreateFile == [fs EXCEPT ![IterPath] = Created]

\* os.Create fails: return err
IterCreateFail ==
  /\ IterBegin
  /\ writeFiles
  /\ ioFailed' = TRUE
  /\ Fatal(IterLog, "create")
  /\ UNCHANGED <<config, pkgs, pending, outPkg, outDirMade, fs, stdout>>

\* printer.Fprint (err = "render") or imports.Process (err = "process")
\* fails: return err, after os.Create in write mode
IterRenderFail(err) ==
  /\ IterBegin
  /\ fs' = IF writeFiles THEN CreateFile ELSE fs
  /\ Fatal(IterLog, err)
  /\ UNCHANGED <<config, pkgs, pending, outPkg, outDirMade, stdout, ioFailed>>

\* w.Write(src); with ok false the write fails and its error is dropped
IterWrite(ok) ==
  /\ IterBegin
  /\ fs' = IF ~writeFiles THEN fs
           ELSE IF ok THEN [fs EXCEPT ![IterPath] = [exists |-> TRUE, data |-> <<file'>>]]
           ELSE CreateFile
  /\ stdout' = IF ~writeFiles /\ ok THEN Append(stdout, file') ELSE stdout
  /\ ioFailed' = (ioFailed \/ ~ok)
  /\ log' = log \o IterLog
  /\ pc' = "write"
  /\ UNCHANGED <<config, pkgs, pending, outPkg, outDirMade>>

\* the loop is over: return nil, to main
WriteReturn ==
  /\ pc = "write" /\ idx = Len(ifaces)
  /\ pc' = IF variant = "import" THEN "exit0" ELSE "main"
  /\ UNCHANGED <<config, pkgs, pending, outPkg, ifaces, idx, file, outDirMade, fs, stdout, log, ioFailed>>

Next ==
  \/ ParseFail
  \/ ImportNoPkg
  \/ \E mk \in BOOLEAN : ImportMain(mk)
  \/ DirParse
  \/ DirMain
  \/ DirMainDone
  \/ IterCreateFail
  \/ \E err \in {"render", "process"} : IterRenderFail(err)
  \/ \E ok \in BOOLEAN : IterWrite(ok)
  \/ WriteReturn

Spec == Init /\ [][Next]_vars

TypeOK ==
  /\ pc \in {"start", "main", "write", "exit0", "exit1"}
  /\ idx \in 0..Len(ifaces)
  /\ pending \subseteq pkgs

\* ---------------------------------------------------------------- claims
Last(s) == s[Len(s)]

\* the function-typed entries of a method list, in order
FuncEntries(methods) == SelectSeq(methods, LAMBDA m : m.Type.kind = "FuncType")

HasNonFunc(iface) ==
  \E i \in 1..Len(iface.Type.Methods) : iface.Type.Methods[i].Type.kind # "FuncType"

\* the fields of the mock struct of a built file
StructFields(f) == f.Decls[1].Specs[1].Type.Methods

\* a file has the shape struct declaration first, then methods only
StructFirst(f) ==
  /\ Len(f.Decls) >= 1
  /\ f.Decls[1].kind = "GenDecl"
  /\ f.Decls[1].Specs[1].Type.kind = "StructType"
  /\ \A i \in 2..Len(f.Decls) : f.Decls[i].kind = "FuncDecl"

\* every chunk a run has written: to the output files and to standard output
Written ==
  {fs[p].data[i] : p \in {q \in OutPaths : fs[q].data # <<>>}, i \in {1}} \cup
  {stdout[i] : i \in 1..Len(stdout)}

\* C1: the mock built for an interface with methods m1..mn has exactly the n
\* fields m1_..mn_ and the n methods m1..mn, both in declared order, and in
\* every written file the struct declaration precedes the methods.
C1_FieldsAndMethodsInOrder ==
  /\ idx >= 1 =>
       LET ms == FuncEntries(ifaces[idx].Type.Methods)
       IN  /\ StructFirst(file)
           /\ Len(file.Decls) = Len(ms) + 1
           /\ Len(StructFields(file)) = Len(ms)
           /\ \A i \in 1..Len(ms) :
                /\ StructFields(file)[i].Names = <<ms[i].Names[1] \o <<"_">>>>
                /\ file.Decls[i + 1].Name = ms[i].Names[1]
  /\ \A f \in Written : f # OldSrc => StructFirst(f)

C1_Witness ==
  /\ idx >= 1
  /\ Len(FuncEntries(ifaces[idx].Type.Methods)) >= 2
  /\ file \in Written

RECURSIVE ParamCount(_)
\* the number of parameters a parameter list declares: a group without names
\* declares one, a group with names one per name
ParamCount(fl) ==
  IF fl = <<>> THEN 0
  ELSE (IF Head(fl).Names = <<>> THEN 1 ELSE Len(Head(fl).Names)) + ParamCount(Tail(fl))

RECURSIVE ParamNames(_)
\* the names of a parameter list's parameters, in declared order
ParamNames(fl) ==
  IF fl = <<>> THEN <<>> ELSE Head(fl).Names \o ParamNames(Tail(fl))

\* C2: every delegating method's body is one return of a call of the field
\* <Method>_ with exactly k arguments for k declared parameters, argument i
\* being the name of parameter i of the signature, in both variants.
C2_ForwardsEveryParameter ==
  idx >= 1 =>
    \A i \in 2..Len(file.Decls) :
      LET d == file.Decls[i]
      IN  /\ Len(d.Body) = 1
          /\ d.Body[1].stmt = "return"
          /\ d.Body[1].Fun = <<"s", ".">> \o d.Name \o <<"_">>
          /\ Len(d.Body[1].Args) = ParamCount(d.Type.Params)
          /\ d.Body[1].Args = ParamNames(d.Type.Params)

\* C2 in the dir variant alone, where the parameters are named first: the
\* forwarding is complete.
C2_DirVariantForwards == variant = "dir" => C2_ForwardsEveryParameter

\* the set of interfaces the selector matches in package p
Matched(p) ==
  UNION {{WalkFile(variant, f)[i] : i \in 1..Len(WalkFile(variant, f))} : f \in p.Files}

\* the packages a finished run has gone through
Processed ==
  IF variant = "import" THEN {p \in pkgs : p.Name = pkgName} ELSE pkgs \ pending

\* C3: after an error-free run in write mode, every matched interface's mock
\* is in the file at its derived path; none has been overwritten.
C3_OneFilePerInterface ==
  (pc = "exit0" /\ writeFiles /\ ~ioFailed) =>
    \A p \in Processed : \A I \in Matched(p) :
      /\ fs[OutPath(I)].exists
      /\ \E i \in 1..Len(fs[OutPath(I)].data) :
           LET f == fs[OutPath(I)].data[i]
           IN  f # OldSrc /\ f.Decls[1].Specs[1].Name = <<"Mock">> \o I.Name

Warnings(l) == Len(SelectSeq(l, LAMBDA line : line.kind = "warning"))

\* a step in which a package is scanned and found to have no matching
\* interface, and nothing else fails
ScansEmpty ==
  /\ ifaces' = <<>>
  /\ \/ variant = "dir" /\ pc = "main" /\ pending' # pending
     \/ variant = "import" /\ pc = "start" /\ pc' = "write"

C5_IoFailureIsFatal == ioFailed => pc = "exit1"

\* C6: every interface the selector returns is declared by a top-level type
\* declaration of one of the package's files.
C6_OnlyTopLevel ==
  \A i \in 1..Len(ifaces) :
    \E f \in dir : \E k \in 1..Len(f.Decls) :
      /\ f.Decls[k].kind = "GenDecl" /\ f.Decls[k].Tok = "type"
      /\ f.Filename = ifaces[i].Pos
      /\ \E j \in 1..Len(f.Decls[k].Specs) : f.Decls[k].Specs[j].Name = ifaces[i].Name

\* the files of package p in file-name order
FilesInOrder(p) ==
  LET names == SelectSeq(SrcFileNames, LAMBDA fn : \E f \in p.Files : f.Filename = fn)
  IN  [i \in 1..Len(names) |-> CHOOSE f \in p.Files : f.Filename = names[i]]

NamesOf(tspecs) == [i \in 1..Len(tspecs) |-> tspecs[i].Name]

\* C7: the selector's result is always in declaration order within each
\* file, with the files taken in file order.
C7_SelectionOrderFixed ==
  pc = "write" =>
    \E p \in pkgs : /\ p.Name = outPkg
                    /\ NamesOf(ifaces) = NamesOf(readIfaces(variant, FilesInOrder(p)))

\* C8: for a method with unnamed parameters, group i of the signature is
\* named v<i>, named groups are unchanged, and the call forwards these names.
C8_SynthesizedNames ==
  [][(pc = "write" /\ idx' = idx + 1) =>
       LET ms == FuncEntries(ifaces[idx + 1].Type.Methods)
       IN  \A j \in 1..Len(ms) :
             LET P == ms[j].Type.Params
                 Q == file'.Decls[j + 1].Type.Params
             IN  (\E i \in 1..Len(P) : P[i].Names = <<>>) =>
                   /\ Len(Q) = Len(P)
                   /\ \A i \in 1..Len(P) :
                        Q[i].Names = IF P[i].Names = <<>> THEN <<<<"v">> \o Itoa(i - 1)>>
                                     ELSE P[i].Names
                   /\ file'.Decls[j + 1].Body[1].Args = ParamNames(Q)
                   /\ Len(file'.Decls[j + 1].Body[1].Args) = Len(P)]_vars

\* C8 in the dir variant alone: the file built has, for every method, the
\* parameter groups named as synthesizeFieldNamesIfMissing names them.
C8_DirVariantNames ==
  (variant = "dir" /\ idx >= 1) =>
    \A j \in 2..Len(file.Decls) :
      \A i \in 1..Len(file.Decls[j].Type.Params) :
        /\ file.Decls[j].Type.Params[i].Names # <<>>
        /\ file.Decls[j].Type.Params[i].Names \in
             {<<<<"v">> \o Itoa(i - 1)>>, << <<"a">> >>, << <<"b">>, <<"c">> >>, << <<"id">> >>}

\* C9: a step that ends the run on a rendering or import-resolution error
\* leaves the output files and standard output as they were.
C9_RenderFailureLeavesOutput ==
  [][(pc' = "exit1" /\ pc = "write" /\ Last(log').arg \in {<<"render">>, <<"process">>}) =>
       /\ fs' = fs
       /\ stdout' = stdout]_vars

====
